---- MODULE Spec2Model ----
(***************************************************************************)
(* Model of the resilient text-generation call of rktn: the retry helpers  *)
(* of src/src/retry_helper.py (error classifier, backoff calculator,       *)
(* metrics sink) and the retry controller generate_with_retry that the     *)
(* generators import from ai_helpers.                                      *)
(*                                                                         *)
(* Texts are sequences of one-character strings, so that lowercasing,      *)
(* substring search and stripping are computed, not assumed.  Durations    *)
(* are whole seconds.                                                      *)
(***************************************************************************)
EXTENDS Integers, Sequences, FiniteSets, TLC

VARIABLES
    config,   \* the configuration record of the call in progress
    call,     \* the retry controller's call: state, position, counters, result
    log,      \* ../logs/ai_metrics.jsonl: the lines appended so far
    clock,    \* time.time(), in seconds
    bo,       \* the backoff calculator under test: its arguments and its result
    cls,      \* the error classifier under test: its argument and its result
    sink,     \* the threads that call the metrics sink, and how the file appends
    gen,      \* a generator: its worker pool, its posts and its retry passes
    pipe,     \* run_all: the step it is at, the steps started, the return codes
    mrg,      \* merge_alternate: its two lists of lines and its result
    calls     \* generate_with_retry calls that run at the same time

vars == <<config, call, log, clock, bo, cls, sink, gen, pipe, mrg, calls>>

----------------------------------------------------------------------------
(* Bounds of the model *)

MaxRetries == 3        \* max_retries ranges over 1..MaxRetries
MaxAttempt == 6        \* attempt numbers given to the backoff calculator
MaxClock == 400        \* the clock stops advancing here

----------------------------------------------------------------------------
(* Texts *)

Min(a, b) == IF a <= b THEN a ELSE b

Upper == <<"A", "B", "C", "D", "E", "F", "G", "H", "I", "J", "K", "L", "M",
           "N", "O", "P", "Q", "R", "S", "T", "U", "V", "W", "X", "Y", "Z">>
Lower == <<"a", "b", "c", "d", "e", "f", "g", "h", "i", "j", "k", "l", "m",
           "n", "o", "p", "q", "r", "s", "t", "u", "v", "w", "x", "y", "z">>

\* str.lower(), one character
LowerChar(ch) ==
    IF \E i \in 1..Len(Upper) : Upper[i] = ch
    THEN Lower[CHOOSE i \in 1..Len(Upper) : Upper[i] = ch]
    ELSE ch

\* str.lower()
LowerText(t) == [i \in 1..Len(t) |-> LowerChar(t[i])]

\* ind in text
Contains(t, ind) ==
    \E i \in 0..(Len(t) - Len(ind)) :
        \A j \in 1..Len(ind) : t[i + j] = ind[j]

\* characters str.strip() removes
Whitespace == {" ", "\n", "\t", "\r"}

RECURSIVE LStrip(_)
LStrip(t) == IF t # <<>> /\ Head(t) \in Whitespace THEN LStrip(Tail(t)) ELSE t

RECURSIVE RStrip(_)
RStrip(t) ==
    IF t # <<>> /\ t[Len(t)] \in Whitespace
    THEN RStrip(SubSeq(t, 1, Len(t) - 1))
    ELSE t

\* Mutant: whitespace is removed inside the text too
StripEverywhere(t) == SelectSeq(t, LAMBDA ch : ch \notin Whitespace)

\* str.strip()
Strip(t) == RStrip(LStrip(t))

----------------------------------------------------------------------------
(* Error classifier: retry_helper.should_retry_on_error *)

IndResourceExhausted == <<"r", "e", "s", "o", "u", "r", "c", "e", "_", "e", "x", "h", "a", "u", "s", "t", "e", "d">>
Ind429 == <<"4", "2", "9">>
IndRate == <<"r", "a", "t", "e">>
IndTimeout == <<"t", "i", "m", "e", "o", "u", "t">>
IndTimedout == <<"t", "i", "m", "e", "d", "o", "u", "t">>
IndConn == <<"c", "o", "n", "n">>
IndRefused == <<"r", "e", "f", "u", "s", "e", "d">>
IndReset == <<"r", "e", "s", "e", "t">>

rate_indicators ==
    {IndResourceExhausted, Ind429, IndRate, IndTimeout, IndTimedout, IndConn,
     IndRefused, IndReset}

\* An error text is a record: none = TRUE is Python's None.
NoneText == [none |-> TRUE, chars |-> <<>>]
Text(chars) == [none |-> FALSE, chars |-> chars]

\* Mutant: the text is searched as it is, without lower()
should_retry_on_error_case_sensitive(error_text) ==
    LET text == IF error_text.none THEN <<>> ELSE error_text.chars
    IN  \E ind \in rate_indicators : Contains(text, ind)

\* (error_text or "").lower(), then any(ind in text ...)
should_retry_on_error(error_text) ==
    LET text == LowerText(IF error_text.none THEN <<>> ELSE error_text.chars)
    IN  \E ind \in rate_indicators : Contains(text, ind)

\* Error descriptions the remote call raises in the model
ErrRateLimitExceeded == <<"R", "a", "t", "e", " ", "l", "i", "m", "i", "t", " ", "e", "x", "c", "e", "e", "d", "e", "d">>
ErrPersistent == <<"P", "e", "r", "s", "i", "s", "t", "e", "n", "t", " ", "e", "r", "r", "o", "r">>
Err429 == <<"4", "2", "9", " ", "T", "o", "o", " ", "M", "a", "n", "y", " ", "R", "e", "q", "u", "e", "s", "t", "s">>
ErrInvalidKey == <<"I", "n", "v", "a", "l", "i", "d", " ", "A", "P", "I", " ", "k", "e", "y">>

ErrorTexts == {ErrRateLimitExceeded, ErrPersistent, <<>>}

----------------------------------------------------------------------------
(* Backoff calculator: retry_helper.calculate_backoff *)

SatExp == 12           \* powers of two are exact up to 2^SatExp
RandSteps == 1         \* random.uniform draws one of RandSteps + 1 points

\* dict.get(key, default); a dict is a function from its keys
Get(d, key, default) == IF key \in DOMAIN d THEN d[key] ELSE default

RECURSIVE Pow2(_)
Pow2(e) == IF e = 0 THEN 1 ELSE 2 * Pow2(e - 1)

\* 2 ** (attempt - 1).  Every power from 2^SatExp on exceeds every ceiling of
\* the model, and min(backoff, max_backoff) maps them all to the ceiling, so
\* the larger powers are represented by 2^SatExp.
PyPow2(e) == IF e >= SatExp THEN Pow2(SatExp) ELSE Pow2(e)

\* base * (2 ** (attempt - 1)) with a float base (the default 2.0, float(arg2)
\* or a float of the configuration; every number of the model stands for a
\* float) converts the integer power to a float: Python raises OverflowError
\* from 2 ** 1024 on.
PowerOverflowsFloat(e) == e >= 1024

\* random.uniform(a, b) = a + (b - a) * random(), random() = rnd / RandSteps
Uniform(a, b, rnd) == a + ((b - a) * rnd) \div RandSteps

\* Python values passed positionally: a bool, a number or a dict
PyBool(b) == [type |-> "bool", val |-> b]
PyNum(n) == [type |-> "num", val |-> n]
PyDict(d) == [type |-> "dict", val |-> d]

\* float(x): True is 1.0, False is 0.0, a dict raises
PyFloat(x) == IF x.type = "bool" THEN (IF x.val THEN 1 ELSE 0) ELSE x.val

Raised(exc) == [raises |-> exc, form |-> "none", backoff |-> 0, jitter |-> 0, sleep_time |-> 0]
Returned(form, b, j, s) == [raises |-> "none", form |-> form, backoff |-> b, jitter |-> j, sleep_time |-> s]

\* Mutant: the exponent is attempt instead of attempt - 1
calculate_backoff_config_exponent_off(attempt, is_rate_limit, cfg, rnd) ==
    IF PowerOverflowsFloat(attempt - 1) THEN Raised("OverflowError")
    ELSE
    LET base == Get(cfg, "retry_base_backoff", 2)
        raw == base * PyPow2(attempt)
        multiplied == IF is_rate_limit
                      THEN raw * Get(cfg, "rate_limit_multiplier", 6)
                      ELSE raw
        max_backoff == Get(cfg, "retry_max_backoff", 120)
        backoff == Min(multiplied, max_backoff)
        jitter == Uniform(0, Get(cfg, "retry_jitter_max", 2), rnd)
    IN  Returned("triple", backoff, jitter, backoff + jitter)

\* Mutant: the multiplier is applied whatever the classification
calculate_backoff_config_always_multiplied(attempt, is_rate_limit, cfg, rnd) ==
    IF PowerOverflowsFloat(attempt - 1) THEN Raised("OverflowError")
    ELSE
    LET base == Get(cfg, "retry_base_backoff", 2)
        raw == base * PyPow2(attempt - 1)
        multiplied == raw * Get(cfg, "rate_limit_multiplier", 6)
        max_backoff == Get(cfg, "retry_max_backoff", 120)
        backoff == Min(multiplied, max_backoff)
        jitter == Uniform(0, Get(cfg, "retry_jitter_max", 2), rnd)
    IN  Returned("triple", backoff, jitter, backoff + jitter)

\* Old-style call (attempt, is_rate_limit, config): returns the triple
\* (backoff, jitter, sleep_time)
calculate_backoff_config(attempt, is_rate_limit, cfg, rnd) ==
    IF PowerOverflowsFloat(attempt - 1) THEN Raised("OverflowError")
    ELSE
    LET base == Get(cfg, "retry_base_backoff", 2)
        raw == base * PyPow2(attempt - 1)
        multiplied == IF is_rate_limit
                      THEN raw * Get(cfg, "rate_limit_multiplier", 6)
                      ELSE raw
        max_backoff == Get(cfg, "retry_max_backoff", 120)
        backoff == Min(multiplied, max_backoff)
        jitter == Uniform(0, Get(cfg, "retry_jitter_max", 2), rnd)
    IN  Returned("triple", backoff, jitter, backoff + jitter)

\* Mutant: the total sleep is not capped again after the jitter is added
calculate_backoff_positional_uncapped(attempt, base, max_backoff, kwargs, rnd) ==
    IF PowerOverflowsFloat(attempt - 1) THEN Raised("OverflowError")
    ELSE
    LET rate_limit_multiplier == Get(kwargs, "rate_limit_multiplier", 6)
        jitter_max == IF "rate_limit_multiplier" \in DOMAIN kwargs
                      THEN Get(kwargs, "retry_jitter_max", 0)
                      ELSE Get(kwargs, "retry_jitter_max", 2)
        raw == base * PyPow2(attempt - 1) * rate_limit_multiplier
        backoff == Min(raw, max_backoff)
        jitter == Uniform(0, jitter_max, rnd)
    IN  Returned("float", backoff, jitter, backoff + jitter)

\* Mutant: the jitter default is 2 also when the multiplier is passed
calculate_backoff_positional_default_jitter(attempt, base, max_backoff, kwargs, rnd) ==
    IF PowerOverflowsFloat(attempt - 1) THEN Raised("OverflowError")
    ELSE
    LET rate_limit_multiplier == Get(kwargs, "rate_limit_multiplier", 6)
        jitter_max == Get(kwargs, "retry_jitter_max", 2)
        raw == base * PyPow2(attempt - 1) * rate_limit_multiplier
        backoff == Min(raw, max_backoff)
        jitter == Uniform(0, jitter_max, rnd)
        sleep_time == Min(backoff + jitter, max_backoff)
    IN  Returned("float", backoff, jitter, sleep_time)

\* New-style call (attempt, base, max_backoff, **kwargs): returns sleep_time
calculate_backoff_positional(attempt, base, max_backoff, kwargs, rnd) ==
    IF PowerOverflowsFloat(attempt - 1) THEN Raised("OverflowError")
    ELSE
    LET rate_limit_multiplier == Get(kwargs, "rate_limit_multiplier", 6)
        jitter_max == IF "rate_limit_multiplier" \in DOMAIN kwargs
                      THEN Get(kwargs, "retry_jitter_max", 0)
                      ELSE Get(kwargs, "retry_jitter_max", 2)
        raw == base * PyPow2(attempt - 1) * rate_limit_multiplier
        backoff == Min(raw, max_backoff)
        jitter == Uniform(0, jitter_max, rnd)
        sleep_time == Min(backoff + jitter, max_backoff)
    IN  Returned("float", backoff, jitter, sleep_time)

\* calculate_backoff(attempt, arg2, arg3, **kwargs): the dispatch on the
\* types of arg2 and arg3; rnd is the draw of random.uniform
calculate_backoff(attempt, arg2, arg3, kwargs, rnd) ==
    IF arg2.type = "bool" /\ arg3.type = "dict"
    THEN calculate_backoff_config(attempt, arg2.val, arg3.val, rnd)
    ELSE IF arg2.type = "dict" \/ arg3.type = "dict"
         THEN Raised("TypeError")
         ELSE calculate_backoff_positional(attempt, PyFloat(arg2), PyFloat(arg3), kwargs, rnd)

----------------------------------------------------------------------------
(* Metrics sink: retry_helper.metrics_log and retry_helper.log_retry_attempt *)

\* info = None
NoneInfo == [none |-> TRUE]

\* {}
EmptyInfo == <<>>

\* json.dumps(entry) + "\n": one line holding the three members of the entry
JsonLine(entry) ==
    <<"{", <<"timestamp", entry.timestamp>>, <<"event", entry.event>>,
      <<"info", entry.info>>, "}", "\n">>

\* Mutant: the I/O failure is not swallowed and reaches the caller
metrics_log_raising(lg, event_type, info, now, io_ok) ==
    LET entry == [timestamp |-> now,
                  event |-> event_type,
                  info |-> IF info = NoneInfo THEN EmptyInfo ELSE info]
    IN  [log |-> IF io_ok THEN Append(lg, JsonLine(entry)) ELSE lg,
         raises |-> ~io_ok]

\* Mutant: a failing write leaves the beginning of its line in the log
metrics_log_partial_line(lg, event_type, info, now, io_ok) ==
    LET entry == [timestamp |-> now,
                  event |-> event_type,
                  info |-> IF info = NoneInfo THEN EmptyInfo ELSE info]
    IN  [log |-> IF io_ok THEN Append(lg, JsonLine(entry)) ELSE Append(lg, <<"{">>),
         raises |-> FALSE]

\* Mutant: info is written as given, None included
metrics_log_null_info(lg, event_type, info, now, io_ok) ==
    LET entry == [timestamp |-> now, event |-> event_type, info |-> info]
    IN  [log |-> IF io_ok THEN Append(lg, JsonLine(entry)) ELSE lg,
         raises |-> FALSE]

\* Mutant: the line is written at the head of the file
metrics_log_at_head(lg, event_type, info, now, io_ok) ==
    LET entry == [timestamp |-> now,
                  event |-> event_type,
                  info |-> IF info = NoneInfo THEN EmptyInfo ELSE info]
    IN  [log |-> IF io_ok THEN <<JsonLine(entry)>> \o lg ELSE lg,
         raises |-> FALSE]

\* metrics_log(event_type, info) at time now.  io_ok = FALSE: makedirs, open
\* or write raises, and the except clause swallows it.  The file system is
\* in one condition for the emissions of one handler.  The result is the log
\* after the call and whether the call raised to its caller.
metrics_log(lg, event_type, info, now, io_ok) ==
    LET entry == [timestamp |-> now,
                  event |-> event_type,
                  info |-> IF info = NoneInfo THEN EmptyInfo ELSE info]
    IN  [log |-> IF io_ok THEN Append(lg, JsonLine(entry)) ELSE lg,
         raises |-> FALSE]

\* None where a number is expected
NoNumber == 0 - 1

\* Mutant: the is_rate_limit the caller passes is not read
log_retry_attempt_flag_dropped(lg, attempt, max_retries, error_text, sleep_time, backoff, kwargs, now, io_ok) ==
    LET error == IF error_text = NoneText
                 THEN Get(kwargs, "error_message", Text(<<>>))
                 ELSE error_text
        backoff_seconds == IF backoff = NoNumber
                           THEN Get(kwargs, "backoff_seconds", NoNumber)
                           ELSE backoff
        r == metrics_log(lg, "retry_attempt",
                         [attempt |-> attempt,
                          max_retries |-> max_retries,
                          error |-> error,
                          is_rate_limit |-> FALSE,
                          backoff |-> backoff_seconds,
                          sleep_time |-> sleep_time],
                         now, io_ok)
    IN  [log |-> r.log, raises |-> FALSE]

\* log_retry_attempt(attempt, max_retries, error_text, sleep_time, backoff,
\* **kwargs): takes the names the callers use (error_message,
\* backoff_seconds, is_rate_limit), prints, then emits the retry_attempt
\* event; whatever metrics_log raises is swallowed again
log_retry_attempt(lg, attempt, max_retries, error_text, sleep_time, backoff, kwargs, now, io_ok) ==
    LET error == IF error_text = NoneText
                 THEN Get(kwargs, "error_message", Text(<<>>))
                 ELSE error_text
        backoff_seconds == IF backoff = NoNumber
                           THEN Get(kwargs, "backoff_seconds", NoNumber)
                           ELSE backoff
        is_rate_limit == Get(kwargs, "is_rate_limit", FALSE)
        r == metrics_log(lg, "retry_attempt",
                         [attempt |-> attempt,
                          max_retries |-> max_retries,
                          error |-> error,
                          is_rate_limit |-> is_rate_limit,
                          backoff |-> backoff_seconds,
                          sleep_time |-> sleep_time],
                         now, io_ok)
    IN  [log |-> r.log, raises |-> FALSE]

----------------------------------------------------------------------------
(* Retry controller: ai_helpers.generate_with_retry(client, prompt, config) *)

\* Results of the remote call: a response object with an optional direct
\* text attribute and an optional candidates/content/parts text.
Response(has_text, text, has_parts, part_text) ==
    [has_text |-> has_text, text |-> text, has_parts |-> has_parts, part_text |-> part_text]
NoResponse == Response(FALSE, <<>>, FALSE, <<>>)
DirectTexts ==
    {<<>>, <<" ">>, <<" ", "\n", "\t">>, <<"o", "k">>, <<" ", "o", "k", "\n">>,
     <<"a", " ", "b">>, <<" ", "a", "\n", "b", " ">>}
Responses ==
    {Response(TRUE, t, FALSE, <<>>) : t \in DirectTexts}
    \cup {Response(FALSE, <<>>, TRUE, t) : t \in {<<>>, <<"o", "k">>, <<" ", "n", " ">>}}
    \cup {Response(TRUE, <<"o", "k">>, TRUE, <<"n">>), NoResponse}

\* Mutant: the nested part is preferred to the direct attribute
ExtractTextNestedFirst(resp) ==
    IF resp.has_parts THEN resp.part_text
    ELSE IF resp.has_text THEN resp.text
    ELSE <<>>

\* The text of a response: the direct attribute when present, else the
\* nested part, else empty
ExtractText(resp) ==
    IF resp.has_text THEN resp.text
    ELSE IF resp.has_parts THEN resp.part_text
    ELSE <<>>

\* The six-parameter backoff of the controller, computed by calculate_backoff:
\* the multiplier applies only to a rate-limited error
Backoff(attempt, rate_limited, cfg, rnd) ==
    calculate_backoff(attempt, PyNum(cfg.base), PyNum(cfg.max_backoff),
                      [rate_limit_multiplier |-> IF rate_limited THEN cfg.rate_limit_multiplier ELSE 1,
                       retry_jitter_max |-> cfg.jitter_max],
                      rnd)

\* A call as it starts: ATTEMPTING, attempt counter 1
NewCall ==
    [state |-> "ATTEMPTING", at |-> "head", attempt |-> 1, invocations |-> 0,
     outcomes |-> <<>>, emitted |-> <<>>, response |-> NoResponse,
     result |-> <<>>, wait |-> 0, raised |-> FALSE]

\* Emitting one metrics event from the call: s is the pair (call, log)
Emit(s, event, info, now, io_ok) ==
    LET r == metrics_log(s.log, event, info, now, io_ok)
    IN  [call |-> [s.call EXCEPT !.emitted = Append(@, [event |-> event, info |-> info]),
                                 !.raised = @ \/ r.raises],
         log |-> r.log]

\* An exception that escapes the controller ends the call
Escape(s) ==
    IF s.call.raised THEN [s EXCEPT !.call.at = "done"] ELSE s

\* Mutant: the loop test is off by one
AttemptsLeftOffByOne(c, cfg) == c.attempt <= cfg.max_retries + 1

\* The loop test: attempts are left
AttemptsLeft(c, cfg) == c.attempt <= cfg.max_retries

\* The remote call is invoked
StartAttempt(c) ==
    [c EXCEPT !.at = "remote", !.invocations = @ + 1]

\* Mutant: ai_success reports the zero-based loop index
OnResponseZeroBased(s, resp, now, io_ok) ==
    LET text == Strip(ExtractText(resp))
        c1 == [s.call EXCEPT !.outcomes = Append(@, "return"), !.response = resp]
        e == Emit([s EXCEPT !.call = c1], "ai_success", [attempts |-> c1.attempt - 1], now, io_ok)
    IN  Escape([e EXCEPT !.call.state = "SUCCEEDED", !.call.at = "done", !.call.result = text])

\* Mutant: an empty text is retried like an error, without events
OnResponseRetryBlank(s, resp, now, io_ok) ==
    LET text == Strip(ExtractText(resp))
        c1 == [s.call EXCEPT !.outcomes = Append(@, "return"), !.response = resp]
        e == Emit([s EXCEPT !.call = c1], "ai_success", [attempts |-> c1.attempt], now, io_ok)
    IN  IF text = <<>>
        THEN [s EXCEPT !.call = [c1 EXCEPT !.at = "sleep", !.wait = 1]]
        ELSE Escape([e EXCEPT !.call.state = "SUCCEEDED", !.call.at = "done", !.call.result = text])

\* Mutant: a response with text in neither shape is handled as an error
OnResponseShapeError(s, resp, now, io_ok) ==
    LET text == Strip(ExtractText(resp))
        c1 == [s.call EXCEPT !.outcomes = Append(@, "return"), !.response = resp]
        e == Emit([s EXCEPT !.call = c1], "ai_success", [attempts |-> c1.attempt], now, io_ok)
        x == Emit([s EXCEPT !.call = c1], "ai_error", [attempt |-> c1.attempt, error |-> <<>>], now, io_ok)
    IN  IF ~resp.has_text /\ ~resp.has_parts
        THEN Escape([x EXCEPT !.call.at = "sleep", !.call.wait = 1])
        ELSE Escape([e EXCEPT !.call.state = "SUCCEEDED", !.call.at = "done", !.call.result = text])

\* The remote call returned resp: extract, strip, ai_success, return
OnResponse(s, resp, now, io_ok) ==
    LET text == Strip(ExtractText(resp))
        c1 == [s.call EXCEPT !.outcomes = Append(@, "return"), !.response = resp]
        e == Emit([s EXCEPT !.call = c1], "ai_success", [attempts |-> c1.attempt], now, io_ok)
    IN  Escape([e EXCEPT !.call.state = "SUCCEEDED", !.call.at = "done", !.call.result = text])

\* Mutant: an error that is not classified rate-limited ends the call
OnErrorGiveUp(s, cfg, err, rnd, now, io_ok) ==
    LET c1 == [s.call EXCEPT !.outcomes = Append(@, "raise")]
        rate_limited == should_retry_on_error(Text(err))
        b == Backoff(c1.attempt, rate_limited, cfg, rnd)
        e1 == Emit([s EXCEPT !.call = c1], "ai_error", [attempt |-> c1.attempt, error |-> err], now, io_ok)
        e2 == Emit(e1, "ai_rate_limit", [attempt |-> c1.attempt], now, io_ok)
    IN  IF rate_limited
        THEN [e2 EXCEPT !.call.at = "sleep", !.call.wait = b.sleep_time]
        ELSE [e1 EXCEPT !.call.at = "sleep", !.call.wait = 0, !.call.attempt = cfg.max_retries]

\* The remote call raised err: classify, compute the wait, ai_error,
\* ai_rate_limit when classified so, retry_attempt, then suspend
OnError(s, cfg, err, rnd, now, io_ok) ==
    LET c1 == [s.call EXCEPT !.outcomes = Append(@, "raise")]
        rate_limited == should_retry_on_error(Text(err))
        b == Backoff(c1.attempt, rate_limited, cfg, rnd)
        e1 == Emit([s EXCEPT !.call = c1], "ai_error", [attempt |-> c1.attempt, error |-> err], now, io_ok)
        e2 == IF rate_limited
              THEN Emit(e1, "ai_rate_limit", [attempt |-> c1.attempt], now, io_ok)
              ELSE e1
        r == log_retry_attempt(e2.log, c1.attempt, cfg.max_retries, Text(err), b.sleep_time, b.backoff,
                               [is_rate_limit |-> rate_limited], now, io_ok)
        e3 == [call |-> [e2.call EXCEPT !.emitted = Append(@, [event |-> "retry_attempt", info |-> [attempt |-> c1.attempt]]),
                                        !.raised = @ \/ r.raises],
               log |-> r.log]
    IN  Escape([e3 EXCEPT !.call.at = "sleep", !.call.wait = b.sleep_time])

\* The wait is over: the attempt counter is incremented
AfterSleep(c) ==
    [c EXCEPT !.at = "head", !.attempt = @ + 1, !.wait = 0]

\* Mutant: exhaustion returns an error-marker text instead of ""
OnExhaustedMarker(s, now, io_ok) ==
    LET e == Emit(s, "ai_final_failure", [attempts |-> s.call.attempt - 1], now, io_ok)
    IN  Escape([e EXCEPT !.call.state = "EXHAUSTED", !.call.at = "done",
                         !.call.result = <<"[", "A", "I", "]">>])

\* Mutant: exhaustion returns "" without its terminal event
OnExhaustedSilent(s, now, io_ok) ==
    [s EXCEPT !.call.state = "EXHAUSTED", !.call.at = "done", !.call.result = <<>>]

\* Mutant: the exhaustion branch does not return
OnExhaustedNoReturn(s, now, io_ok) == s

\* The attempt counter exceeds max_retries: ai_final_failure, return ""
OnExhausted(s, now, io_ok) ==
    LET e == Emit(s, "ai_final_failure", [attempts |-> s.call.attempt - 1], now, io_ok)
    IN  Escape([e EXCEPT !.call.state = "EXHAUSTED", !.call.at = "done", !.call.result = <<>>])

----------------------------------------------------------------------------
(* The controller as a state machine *)

BackoffConfigs ==
    {[base |-> 2, max_backoff |-> 60, rate_limit_multiplier |-> 6, jitter_max |-> 2],
     [base |-> 1, max_backoff |-> 4, rate_limit_multiplier |-> 6, jitter_max |-> 1]}

Configs ==
    {[max_retries |-> n, base |-> b.base, max_backoff |-> b.max_backoff,
      rate_limit_multiplier |-> b.rate_limit_multiplier, jitter_max |-> b.jitter_max] :
        n \in 1..MaxRetries, b \in BackoffConfigs}

IdleProbe == [phase |-> "idle"]

\* The generator, the pipeline, the merge and the concurrent calls at rest
OthersIdle ==
    /\ gen = IdleProbe
    /\ pipe = IdleProbe
    /\ mrg = IdleProbe
    /\ calls = IdleProbe

Workers == 2           \* threads of the pool that call the sink at a time
MaxEvents == 3         \* events the calls of the threads emit in all
MaxTick == 1           \* seconds that pass while the threads run
Threads == 1..Workers

\* A thread that is not inside metrics_log and has called it calls times
IdleThread ==
    [pc |-> "idle", calls |-> 0, event |-> "", info |-> NoneInfo, now |-> 0,
     pos |-> 0, wrote |-> <<>>]
IdleSink == [append |-> "atomic", threads |-> [t \in Threads |-> IdleThread]]

\* The controller, the log, the clock and the probes at rest
CoreIdle ==
    /\ config \in {c \in Configs : c.max_retries = 1 /\ c.base = 2}
    /\ call = NewCall
    /\ log = <<>>
    /\ clock = 0
    /\ bo = IdleProbe
    /\ cls = IdleProbe
    /\ sink = IdleSink

Init ==
    /\ OthersIdle
    /\ config \in Configs
    /\ call = NewCall
    /\ log = <<>>
    /\ clock = 0
    /\ bo = IdleProbe
    /\ cls = IdleProbe
    /\ sink = IdleSink

Invoke ==
    /\ call.at = "head"
    /\ AttemptsLeft(call, config)
    /\ call' = StartAttempt(call)
    /\ UNCHANGED <<config, log, clock, bo, cls, sink, gen, pipe, mrg, calls>>

RemoteReturns ==
    /\ call.at = "remote"
    /\ \E resp \in Responses, io_ok \in BOOLEAN :
        LET s == OnResponse([call |-> call, log |-> log], resp, clock, io_ok)
        IN  call' = s.call /\ log' = s.log
    /\ UNCHANGED <<config, clock, bo, cls, sink, gen, pipe, mrg, calls>>

RemoteRaises ==
    /\ call.at = "remote"
    /\ \E err \in ErrorTexts, rnd \in 0..RandSteps, io_ok \in BOOLEAN :
        LET s == OnError([call |-> call, log |-> log], config, err, rnd, clock, io_ok)
        IN  call' = s.call /\ log' = s.log
    /\ UNCHANGED <<config, clock, bo, cls, sink, gen, pipe, mrg, calls>>

WakeUp ==
    /\ call.at = "sleep"
    /\ call' = AfterSleep(call)
    /\ clock' = Min(clock + call.wait, MaxClock)
    /\ UNCHANGED <<config, log, bo, cls, sink, gen, pipe, mrg, calls>>

Exhaust ==
    /\ call.at = "head"
    /\ ~AttemptsLeft(call, config)
    /\ \E io_ok \in BOOLEAN :
        LET s == OnExhausted([call |-> call, log |-> log], clock, io_ok)
        IN  call' = s.call /\ log' = s.log
    /\ UNCHANGED <<config, clock, bo, cls, sink, gen, pipe, mrg, calls>>

Next == Invoke \/ RemoteReturns \/ RemoteRaises \/ WakeUp \/ Exhaust

Spec == Init /\ [][Next]_vars

\* The remote call eventually returns or raises, a sleep eventually ends,
\* and the controller's own steps are taken when they are enabled
FairSpec ==
    /\ Spec
    /\ WF_vars(Invoke)
    /\ WF_vars(RemoteReturns \/ RemoteRaises)
    /\ WF_vars(WakeUp)
    /\ WF_vars(Exhaust)

----------------------------------------------------------------------------
(* Properties of the retry controller *)

Done == call.at = "done"
Count(events, kind) == Cardinality({i \in DOMAIN events : events[i].event = kind})
AllRaised == \A i \in DOMAIN call.outcomes : call.outcomes[i] = "raise"
TerminalEvents == {"ai_success", "ai_final_failure"}
Blank(t) == \A i \in DOMAIN t : t[i] \in Whitespace

\* C1: with max_retries = N the remote call is invoked at most N times,
\* whatever the remote call answers.
C1_AtMostMaxRetries == call.invocations <= config.max_retries

C1_Witness ==
    /\ Done
    /\ config.max_retries >= 2
    /\ call.invocations = config.max_retries

C8_Terminates == <>(Done /\ call.state \in {"SUCCEEDED", "EXHAUSTED"})

C8_Witness ==
    /\ Done
    /\ call.state = "EXHAUSTED"
    /\ config.max_retries = MaxRetries
    /\ clock > 0

----------------------------------------------------------------------------
(* The backoff calculator on its own: Init draws the arguments and the    *)
(* random draw, the actions apply calculate_backoff to them.              *)

\* a key that is not passed
Absent == 0 - 1

\* The dict holding the keys of d that are given
Given(d) == [k \in {x \in DOMAIN d : d[x] # Absent} |-> d[k]]

ProbeAttempts == (1..MaxAttempt) \cup {1024, 1025}

ProbeConfigs ==
    {Given([retry_base_backoff |-> b, retry_max_backoff |-> m,
            rate_limit_multiplier |-> r, retry_jitter_max |-> j]) :
        b \in {Absent, 1, 3}, m \in {Absent, 2, 4, 20}, r \in {Absent, 1, 3}, j \in {Absent, 0, 1}}

ProbeKwargs ==
    {Given([rate_limit_multiplier |-> r, retry_jitter_max |-> j]) :
        r \in {Absent, 1, 6}, j \in {Absent, 0, 2}}

ProbeArgs ==
    {<<PyBool(rl), PyDict(c), <<>>>> : rl \in BOOLEAN, c \in ProbeConfigs}
    \cup {<<PyNum(b), PyNum(m), k>> : b \in {1, 2, 3}, m \in {2, 4, 20, 120}, k \in ProbeKwargs}
    \cup {<<PyBool(TRUE), PyNum(20), k>> : k \in ProbeKwargs}
    \cup {<<PyNum(2), PyDict(<<>>), <<>>>>, <<PyDict(<<>>), PyNum(20), <<>>>>}

Probe(attempt, args, rnd) ==
    [phase |-> "args", attempt |-> attempt, arg2 |-> args[1], arg3 |-> args[2],
     kwargs |-> args[3], rnd |-> rnd, result |-> Raised("none")]

InitBackoff ==
    /\ OthersIdle
    /\ config \in {c \in Configs : c.max_retries = 1 /\ c.base = 2}
    /\ call = NewCall
    /\ log = <<>>
    /\ clock = 0
    /\ bo \in {Probe(a, args, rnd) : a \in ProbeAttempts, args \in ProbeArgs, rnd \in 0..RandSteps}
    /\ cls = IdleProbe
    /\ sink = IdleSink

ApplyBackoff ==
    bo' = [bo EXCEPT !.phase = "done",
                     !.result = calculate_backoff(bo.attempt, bo.arg2, bo.arg3, bo.kwargs, bo.rnd)]

\* calculate_backoff(attempt, is_rate_limit, config)
CallWithConfig ==
    /\ bo.phase = "args"
    /\ bo.arg2.type = "bool" /\ bo.arg3.type = "dict"
    /\ ApplyBackoff
    /\ UNCHANGED <<config, call, log, clock, cls, sink, gen, pipe, mrg, calls>>

\* calculate_backoff(attempt, base, max_backoff, ...)
CallPositional ==
    /\ bo.phase = "args"
    /\ bo.arg2.type # "dict" /\ bo.arg3.type # "dict"
    /\ ApplyBackoff
    /\ UNCHANGED <<config, call, log, clock, cls, sink, gen, pipe, mrg, calls>>

\* any other pair of arguments
CallOtherwise ==
    /\ bo.phase = "args"
    /\ ~(bo.arg2.type = "bool" /\ bo.arg3.type = "dict")
    /\ bo.arg2.type = "dict" \/ bo.arg3.type = "dict"
    /\ ApplyBackoff
    /\ UNCHANGED <<config, call, log, clock, cls, sink, gen, pipe, mrg, calls>>

NextBackoff == CallWithConfig \/ CallPositional \/ CallOtherwise

SpecBackoff == InitBackoff /\ [][NextBackoff]_vars

----------------------------------------------------------------------------
(* Properties of the backoff calculator *)

Computed == bo.phase = "done" /\ bo.result.raises = "none"

\* The ceiling and the jitter limit in force for the probe's arguments
ProbeMaxBackoff ==
    IF bo.arg3.type = "dict" THEN Get(bo.arg3.val, "retry_max_backoff", 120) ELSE PyFloat(bo.arg3)
ProbeJitterMax ==
    IF bo.arg3.type = "dict" THEN Get(bo.arg3.val, "retry_jitter_max", 2)
    ELSE IF "rate_limit_multiplier" \in DOMAIN bo.kwargs
         THEN Get(bo.kwargs, "retry_jitter_max", 0)
         ELSE Get(bo.kwargs, "retry_jitter_max", 2)

\* C9 as stated: for all inputs the wait returned is at most max_backoff.
C9_WaitWithinCeiling ==
    Computed => bo.result.sleep_time <= ProbeMaxBackoff

\* C9 as amended: the wait of calculate_backoff(attempt, base, max_backoff,
\* ...) is at most max_backoff for every attempt and jitter draw; of the
\* triple of calculate_backoff(attempt, is_rate_limit, config) the backoff
\* is at most retry_max_backoff and the total, backoff + jitter, is at most
\* retry_max_backoff + retry_jitter_max.
C9_CeilingByForm ==
    Computed =>
        /\ bo.result.form = "float" => bo.result.sleep_time <= ProbeMaxBackoff
        /\ bo.result.form = "triple" =>
            /\ bo.result.backoff <= ProbeMaxBackoff
            /\ bo.result.jitter \in 0..ProbeJitterMax
            /\ bo.result.sleep_time = bo.result.backoff + bo.result.jitter
            /\ bo.result.sleep_time <= ProbeMaxBackoff + ProbeJitterMax

C9_Witness ==
    /\ Computed
    /\ bo.result.form = "float"
    /\ bo.result.jitter > 0
    /\ bo.result.backoff = ProbeMaxBackoff
    /\ bo.result.sleep_time = ProbeMaxBackoff

\* C10: with jitter 0 the backoff of attempt + 1 is at least the backoff of
\* attempt, for every attempt >= 1, and equal to it once the ceiling is
\* reached.
C10_NonDecreasing ==
    (Computed /\ ProbeJitterMax = 0) =>
        LET next == calculate_backoff(bo.attempt + 1, bo.arg2, bo.arg3, bo.kwargs, bo.rnd)
        IN  /\ next.raises = "none"
            /\ bo.result.sleep_time <= next.sleep_time
            /\ bo.result.sleep_time = ProbeMaxBackoff => next.sleep_time = ProbeMaxBackoff

\* The base, the multiplier and the classification given by the probe's
\* arguments.  calculate_backoff(attempt, base, max_backoff, ...) takes no
\* classification: its caller asks for the multiplier by passing one.
ProbeBase ==
    IF bo.arg3.type = "dict" THEN Get(bo.arg3.val, "retry_base_backoff", 2) ELSE PyFloat(bo.arg2)
ProbeMultiplier ==
    IF bo.arg3.type = "dict" THEN Get(bo.arg3.val, "rate_limit_multiplier", 6)
    ELSE Get(bo.kwargs, "rate_limit_multiplier", 6)
ProbeRateLimited ==
    IF bo.arg3.type = "dict" THEN bo.arg2.val ELSE "rate_limit_multiplier" \in DOMAIN bo.kwargs

\* The multiplier each form applies: the configured one for a rate-limited
\* error in the config form, the given or default one in the positional form
ProbeApplied ==
    IF bo.arg3.type = "dict"
    THEN (IF bo.arg2.val THEN ProbeMultiplier ELSE 1)
    ELSE ProbeMultiplier

\* The backoff no attempt of the probe's arguments goes below
AtMostEveryAttempt(b) ==
    \A a \in ProbeAttempts :
        LET r == calculate_backoff(a, bo.arg2, bo.arg3, bo.kwargs, bo.rnd)
        IN  r.raises = "none" => b <= r.backoff

\* C11 as stated: for attempt = 1 the backoff before jitter equals base
\* (times the multiplier when it applies), is never below base and is the
\* minimum over all attempts, for every base, max_backoff and multiplier.
C11_FirstIsBase ==
    (Computed /\ bo.attempt = 1) =>
        /\ bo.result.backoff = ProbeBase * ProbeApplied
        /\ bo.result.backoff >= ProbeBase
        /\ AtMostEveryAttempt(bo.result.backoff)

\* C11 as amended: for attempt = 1 the backoff before jitter is
\* min(base (times the multiplier when it applies), max_backoff); no attempt
\* that returns has a lower backoff; it is at least base when max_backoff
\* is, and is max_backoff when max_backoff is below base.
C11_FirstIsCappedBase ==
    (Computed /\ bo.attempt = 1) =>
        /\ bo.result.backoff = Min(ProbeBase * ProbeApplied, ProbeMaxBackoff)
        /\ AtMostEveryAttempt(bo.result.backoff)
        /\ ProbeMaxBackoff >= ProbeBase => bo.result.backoff >= ProbeBase
        /\ ProbeMaxBackoff < ProbeBase => bo.result.backoff = ProbeMaxBackoff

C11_Witness ==
    /\ Computed
    /\ bo.attempt = 1
    /\ ProbeMaxBackoff < ProbeBase
    /\ bo.result.backoff = ProbeMaxBackoff

----------------------------------------------------------------------------
(* The error classifier on its own: Init draws the error text, the action *)
(* applies should_retry_on_error to it.                                   *)

ExResourceExhausted ==
    <<"R", "E", "S", "O", "U", "R", "C", "E", "_", "E", "X", "H", "A", "U",
      "S", "T", "E", "D">>
ExRateLimit ==
    <<"r", "a", "t", "e", " ", "l", "i", "m", "i", "t">>
ExTimeout ==
    <<"t", "i", "m", "e", "o", "u", "t">>
ExEconnrefused ==
    <<"E", "C", "O", "N", "N", "R", "E", "F", "U", "S", "E", "D">>
ExEtimedout ==
    <<"E", "T", "I", "M", "E", "D", "O", "U", "T">>
ExConnectionReset ==
    <<"c", "o", "n", "n", "e", "c", "t", "i", "o", "n", " ", "r", "e", "s",
      "e", "t">>
ExAuthenticationFailed ==
    <<"A", "u", "t", "h", "e", "n", "t", "i", "c", "a", "t", "i", "o", "n",
      " ", "f", "a", "i", "l", "e", "d">>
ExNotFound ==
    <<"N", "o", "t", " ", "f", "o", "u", "n", "d">>
ExPermissionDenied ==
    <<"P", "e", "r", "m", "i", "s", "s", "i", "o", "n", " ", "d", "e", "n",
      "i", "e", "d">>
ExResourceExhaustedError ==
    <<"R", "E", "S", "O", "U", "R", "C", "E", "_", "E", "X", "H", "A", "U",
      "S", "T", "E", "D", " ", "e", "r", "r", "o", "r">>
ExRateLimitReached ==
    <<"R", "a", "t", "e", " ", "l", "i", "m", "i", "t", " ", "r", "e", "a",
      "c", "h", "e", "d">>
ExConnectionTimeout ==
    <<"C", "o", "n", "n", "e", "c", "t", "i", "o", "n", " ", "t", "i", "m",
      "e", "o", "u", "t">>
ExConnectionResetByPeer ==
    <<"C", "o", "n", "n", "e", "c", "t", "i", "o", "n", " ", "r", "e", "s",
      "e", "t", " ", "b", "y", " ", "p", "e", "e", "r">>
ExGenerateFailed ==
    <<"G", "e", "n", "e", "r", "a", "t", "e", " ", "f", "a", "i", "l", "e",
      "d">>
ExQuotaExceeded ==
    <<"Q", "u", "o", "t", "a", " ", "e", "x", "c", "e", "e", "d", "e", "d">>

\* Texts the classifier is documented and tested to take as rate-limited
RateLimitedExamples ==
    {ExResourceExhausted, Err429, ExRateLimit, ExTimeout, ExEconnrefused,
     ExEtimedout, ExConnectionReset, ExResourceExhaustedError,
     ErrRateLimitExceeded, ExRateLimitReached, ExConnectionTimeout,
     ExConnectionResetByPeer}

\* Texts it is documented and tested to take as not rate-limited
PermanentExamples ==
    {ErrInvalidKey, ExAuthenticationFailed, ExNotFound, ExPermissionDenied, <<>>}

\* str.upper(), one character
UpperChar(ch) ==
    IF \E i \in 1..Len(Lower) : Lower[i] = ch
    THEN Upper[CHOOSE i \in 1..Len(Lower) : Lower[i] = ch]
    ELSE ch

\* str.upper()
UpperText(t) == [i \in 1..Len(t) |-> UpperChar(t[i])]

\* Upper and lower case in turn
MixedCase(t) == [i \in 1..Len(t) |-> IF i % 2 = 1 THEN UpperChar(t[i]) ELSE LowerChar(t[i])]

\* A text in the letter cases of the model
LetterCases(t) == {t, UpperText(t), LowerText(t), MixedCase(t)}

ClassifyTexts ==
    {NoneText}
    \cup {Text(c) : c \in UNION {LetterCases(t) :
            t \in RateLimitedExamples \cup PermanentExamples
                  \cup {ErrPersistent, ExGenerateFailed, ExQuotaExceeded}}}

InitClassify ==
    /\ OthersIdle
    /\ config \in {c \in Configs : c.max_retries = 1 /\ c.base = 2}
    /\ call = NewCall
    /\ log = <<>>
    /\ clock = 0
    /\ bo = IdleProbe
    /\ cls \in {[phase |-> "text", text |-> x, result |-> FALSE] : x \in ClassifyTexts}
    /\ sink = IdleSink

\* should_retry_on_error(error_text)
Classify ==
    /\ cls.phase = "text"
    /\ cls' = [cls EXCEPT !.phase = "done", !.result = should_retry_on_error(cls.text)]
    /\ UNCHANGED <<config, call, log, clock, bo, sink, gen, pipe, mrg, calls>>

NextClassify == Classify

SpecClassify == InitClassify /\ [][NextClassify]_vars

\* The characters of an error text in lower case, none for null
LoweredChars(x) == IF x.none THEN <<>> ELSE LowerText(x.chars)

\* C13: the classifier returns for every error text, null and empty
\* included, and returns true exactly when the lowercased text contains an
\* indicator: the documented rate-limit and network texts are rate-limited
\* in any letter case, the permanent ones, the empty text and null are not.
C13_ClassifierTotal ==
    /\ should_retry_on_error(cls.text) \in BOOLEAN
    /\ cls.phase = "text" => ENABLED Classify
    /\ cls.phase = "done" =>
        /\ cls.result =
            (\E ind \in rate_indicators :
                \E i \in 0..(Len(LoweredChars(cls.text)) - Len(ind)) :
                    SubSeq(LoweredChars(cls.text), i + 1, i + Len(ind)) = ind)
        /\ LoweredChars(cls.text) \in {LowerText(t) : t \in RateLimitedExamples} => cls.result
        /\ LoweredChars(cls.text) \in {LowerText(t) : t \in PermanentExamples} => ~cls.result
        /\ cls.text = NoneText => ~cls.result

C13_Witness ==
    /\ cls.phase = "done"
    /\ cls.text = Text(MixedCase(ExEtimedout))
    /\ cls.result

----------------------------------------------------------------------------
(* The metrics sink under the worker pool: every thread runs one call of   *)
(* the controller and emits its events one after the other, each through   *)
(* metrics_log: open(path, "a"), one write of the line, close.  No lock is  *)
(* taken.  Where the file system appends atomically the line lands at the   *)
(* end of the file in one step; where append is a seek to the end followed  *)
(* by the write, another thread's write can fall between the two.  A        *)
(* position is counted in lines.                                            *)

AppendModes == {"atomic", "seek_then_write"}

SinkEvents == {"ai_request_start", "ai_error"}

\* The n-th event of thread t's call: an event without info, or one with a
\* mapping
SinkInputs(t, n) ==
    {[event |-> "ai_request_start", info |-> NoneInfo],
     [event |-> "ai_error", info |-> [call |-> t, n |-> n]]}

InitSink ==
    /\ OthersIdle
    /\ config \in {c \in Configs : c.max_retries = 1 /\ c.base = 2}
    /\ call = NewCall
    /\ log = <<>>
    /\ clock = 0
    /\ bo = IdleProbe
    /\ cls = IdleProbe
    /\ sink \in {[IdleSink EXCEPT !.append = m] : m \in AppendModes}

\* The metrics_log calls the threads have made, in all
RECURSIVE Calls(_)
Calls(ts) ==
    IF ts = {} THEN 0
    ELSE LET t == CHOOSE x \in ts : TRUE
         IN  sink.threads[t].calls + Calls(ts \ {t})

\* A thread that has left metrics_log
LeaveSink(th) == [th EXCEPT !.pc = "idle", !.now = 0, !.pos = 0]

\* json.loads(line)
IsJsonLine(line) ==
    /\ Len(line) = 6
    /\ line[1] = "{" /\ line[5] = "}" /\ line[6] = "\n"
    /\ line[2][1] = "timestamp" /\ line[3][1] = "event" /\ line[4][1] = "info"
ParseLine(line) ==
    [timestamp |-> line[2][2], event |-> line[3][2], info |-> line[4][2]]

\* A thread enters metrics_log: the entry is built; when makedirs or open
\* fails the call is over, and nothing was written
SinkCall(t) ==
    LET th == sink.threads[t]
    IN  /\ th.pc = "idle"
        /\ Calls(Threads) < MaxEvents
        /\ \E input \in SinkInputs(t, th.calls + 1), io_ok \in BOOLEAN :
            LET event == input.event
                info == input.info
                entered == [th EXCEPT !.calls = @ + 1, !.event = event, !.info = info]
            IN  IF io_ok
                THEN /\ sink' = [sink EXCEPT !.threads[t] = [entered EXCEPT !.pc = "opened", !.now = clock]]
                     /\ log' = log
                ELSE /\ sink' = [sink EXCEPT !.threads[t] = entered]
                     /\ log' = metrics_log(log, event, info, clock, io_ok).log
        /\ UNCHANGED <<config, call, clock, bo, cls, gen, pipe, mrg, calls>>

\* The write of a file that appends atomically
SinkAppend(t) ==
    LET th == sink.threads[t]
        r == metrics_log(log, th.event, th.info, th.now, TRUE)
    IN  /\ sink.append = "atomic"
        /\ th.pc = "opened"
        /\ log' = r.log
        /\ sink' = [sink EXCEPT !.threads[t] =
                        [LeaveSink(th) EXCEPT !.wrote = Append(@, r.log[Len(r.log)])]]
        /\ UNCHANGED <<config, call, clock, bo, cls, gen, pipe, mrg, calls>>

\* The write of a file that seeks to its end first
SinkSeek(t) ==
    LET th == sink.threads[t]
    IN  /\ sink.append = "seek_then_write"
        /\ th.pc = "opened"
        /\ sink' = [sink EXCEPT !.threads[t] = [th EXCEPT !.pc = "positioned", !.pos = Len(log)]]
        /\ UNCHANGED <<config, call, log, clock, bo, cls, gen, pipe, mrg, calls>>

\* ... and then writes the line where it found the end
SinkWriteAt(t) ==
    LET th == sink.threads[t]
        r == metrics_log(SubSeq(log, 1, th.pos), th.event, th.info, th.now, TRUE)
    IN  /\ th.pc = "positioned"
        /\ log' = r.log \o SubSeq(log, Len(r.log) + 1, Len(log))
        /\ sink' = [sink EXCEPT !.threads[t] =
                        [LeaveSink(th) EXCEPT !.wrote = Append(@, r.log[Len(r.log)])]]
        /\ UNCHANGED <<config, call, clock, bo, cls, gen, pipe, mrg, calls>>

\* time.time() advances
SinkTick ==
    /\ clock < MaxTick
    /\ clock' = clock + 1
    /\ UNCHANGED <<config, call, log, bo, cls, sink, gen, pipe, mrg, calls>>

\* run_all starts the next run: the log of the run before is removed, and
\* the generators start their pools again
RunAllClears ==
    /\ \A t \in Threads : sink.threads[t].pc = "idle"
    /\ log # <<>>
    /\ log' = <<>>
    /\ sink' = [IdleSink EXCEPT !.append = sink.append]
    /\ UNCHANGED <<config, call, clock, bo, cls, gen, pipe, mrg, calls>>

NextSink ==
    \/ RunAllClears
    \/ \E t \in Threads : SinkCall(t)
    \/ \E t \in Threads : SinkAppend(t)
    \/ \E t \in Threads : SinkSeek(t)
    \/ \E t \in Threads : SinkWriteAt(t)
    \/ SinkTick

SpecSink == InitSink /\ [][NextSink]_vars

----------------------------------------------------------------------------
(* Properties of the metrics sink *)

\* The entry metrics_log builds
Entry(event_type, info, now) ==
    [timestamp |-> now, event |-> event_type,
     info |-> IF info = NoneInfo THEN EmptyInfo ELSE info]

\* The lines the threads have written, in all
RECURSIVE Writes(_)
Writes(ts) ==
    IF ts = {} THEN 0
    ELSE LET t == CHOOSE x \in ts : TRUE
         IN  Len(sink.threads[t].wrote) + Writes(ts \ {t})

\* C14: metrics_log never raises: when makedirs, open or the write fails
\* it returns normally and appends nothing, and the retry loop goes on as
\* if the event had been logged.
C14_SinkNeverRaises ==
    LET s == [call |-> call, log |-> log]
    IN  /\ \A event \in SinkEvents, info \in {NoneInfo, EmptyInfo, [attempts |-> call.attempt]} :
            metrics_log(log, event, info, clock, FALSE) = [log |-> log, raises |-> FALSE]
        /\ call.at = "remote" =>
            /\ \A resp \in Responses :
                /\ OnResponse(s, resp, clock, FALSE).call = OnResponse(s, resp, clock, TRUE).call
                /\ OnResponse(s, resp, clock, FALSE).log = log
            /\ \A err \in ErrorTexts, rnd \in 0..RandSteps :
                /\ OnError(s, config, err, rnd, clock, FALSE).call = OnError(s, config, err, rnd, clock, TRUE).call
                /\ OnError(s, config, err, rnd, clock, FALSE).log = log
        /\ (call.at = "head" /\ ~AttemptsLeft(call, config)) =>
            /\ OnExhausted(s, clock, FALSE).call = OnExhausted(s, clock, TRUE).call
            /\ OnExhausted(s, clock, FALSE).log = log
        /\ Len(log) <= Len(call.emitted)
        /\ \A i \in DOMAIN log : IsJsonLine(log[i])

C14_Witness ==
    /\ Done
    /\ call.state = "SUCCEEDED"
    /\ Len(call.emitted) = 3
    /\ Len(log) = 2
    /\ \A i \in DOMAIN log : ParseLine(log[i]).event # "ai_success"

\* C15: a metrics_log(event_type, info) call without I/O failure appends
\* exactly one line, a JSON object with the timestamp, event = event_type
\* and info = the given mapping, {} when info is None.
C15_OneJsonLine ==
    /\ \A event \in SinkEvents, info \in {NoneInfo, EmptyInfo, [call |-> 1, n |-> 1]} :
        LET r == metrics_log(log, event, info, clock, TRUE).log
        IN  /\ Len(r) = Len(log) + 1
            /\ SubSeq(r, 1, Len(log)) = log
            /\ IsJsonLine(r[Len(r)])
            /\ ParseLine(r[Len(r)]).timestamp = clock
            /\ ParseLine(r[Len(r)]).event = event
            /\ ParseLine(r[Len(r)]).info = (IF info = NoneInfo THEN EmptyInfo ELSE info)
    /\ \A t \in Threads :
        LET th == sink.threads[t]
        IN  /\ \A i \in DOMAIN th.wrote : IsJsonLine(th.wrote[i])
            /\ (th.pc = "idle" /\ th.wrote # <<>> /\ th.info = NoneInfo /\ Len(th.wrote) = th.calls) =>
                    ParseLine(th.wrote[Len(th.wrote)]).info = EmptyInfo
            /\ (th.pc = "opened" /\ sink.append = "atomic") =>
                    metrics_log(log, th.event, th.info, th.now, TRUE).log
                        = Append(log, JsonLine(Entry(th.event, th.info, th.now)))
            /\ (th.pc = "positioned" /\ th.pos = Len(log)) =>
                    metrics_log(SubSeq(log, 1, th.pos), th.event, th.info, th.now, TRUE).log
                        = Append(log, JsonLine(Entry(th.event, th.info, th.now)))
    /\ sink.append = "atomic" => Len(log) = Writes(Threads)

C15_Witness ==
    /\ sink.threads[1].pc = "idle"
    /\ sink.threads[1].calls = 1
    /\ sink.threads[1].info = NoneInfo
    /\ clock = 1
    /\ log = <<JsonLine([timestamp |-> 1, event |-> "ai_request_start", info |-> EmptyInfo])>>
    /\ sink.threads[1].wrote = log

\* C16: when several calls append at the same time, every line of the log
\* is one complete event written by one metrics_log call, and every event
\* written is in the log: none is lost or split by another call's write.
C16_NoLostOrMixedLine ==
    /\ \A i \in DOMAIN log :
        /\ IsJsonLine(log[i])
        /\ \E t \in Threads : \E k \in DOMAIN sink.threads[t].wrote : log[i] = sink.threads[t].wrote[k]
    /\ \A t \in Threads : \A k \in DOMAIN sink.threads[t].wrote :
        \E i \in DOMAIN log : log[i] = sink.threads[t].wrote[k]
    /\ Len(log) = Writes(Threads)

\* The call and the number of a line whose info names them
Names(line) == "call" \in DOMAIN ParseLine(line).info

\* C17: the events of one call are in the log in the order in which the
\* call emitted them, whatever the other calls write in between.
C17_PerCallOrder ==
    \A i, j \in DOMAIN log :
        (i < j /\ Names(log[i]) /\ Names(log[j])
               /\ ParseLine(log[i]).info.call = ParseLine(log[j]).info.call) =>
            /\ ParseLine(log[i]).info.n < ParseLine(log[j]).info.n
            /\ LET w == sink.threads[ParseLine(log[i]).info.call].wrote
               IN  \E a, b \in DOMAIN w : a < b /\ w[a] = log[i] /\ w[b] = log[j]

C17_Witness ==
    /\ Len(log) = 3
    /\ Names(log[1]) /\ Names(log[2]) /\ Names(log[3])
    /\ ParseLine(log[1]).info = [call |-> 1, n |-> 1]
    /\ ParseLine(log[2]).info.call = 2
    /\ ParseLine(log[3]).info = [call |-> 1, n |-> 2]

----------------------------------------------------------------------------
(* Properties of the text the controller returns *)

\* The last invocation of the remote call returned a response
Answered == call.outcomes # <<>> /\ call.outcomes[Len(call.outcomes)] = "return"

C20_StripOnly ==
    Answered =>
        LET text == ExtractText(call.response)
            r == call.result
        IN  /\ \E i \in 1..(Len(text) + 1), j \in 0..Len(text) :
                /\ r = SubSeq(text, i, j)
                /\ \A k \in 1..(i - 1) : text[k] \in Whitespace
                /\ \A k \in (j + 1)..Len(text) : text[k] \in Whitespace
            /\ r # <<>> => (r[1] \notin Whitespace /\ r[Len(r)] \notin Whitespace)
            /\ text = <<" ", "a", "\n", "b", " ">> => r = <<"a", "\n", "b">>

C20_Witness ==
    /\ Done
    /\ call.state = "SUCCEEDED"
    /\ call.response.has_text
    /\ call.response.text = <<" ", "a", "\n", "b", " ">>
    /\ call.result = <<"a", "\n", "b">>

----------------------------------------------------------------------------
(* Properties of a failed attempt *)

\* The classification of the error an ai_error event reports
RateLimitedEvent(e) == should_retry_on_error(Text(e.info.error))

\* The events of the failed attempts, as emitted
FailureEvents ==
    LET ev == call.emitted
    IN  /\ \A i \in DOMAIN ev :
            ev[i].event = "ai_error" =>
                LET last == i + (IF RateLimitedEvent(ev[i]) THEN 2 ELSE 1)
                IN  /\ last <= Len(ev)
                    /\ RateLimitedEvent(ev[i]) =>
                        ev[i + 1] = [event |-> "ai_rate_limit", info |-> [attempt |-> ev[i].info.attempt]]
                    /\ ev[last] = [event |-> "retry_attempt", info |-> [attempt |-> ev[i].info.attempt]]
        /\ \A i \in DOMAIN ev :
            ev[i].event = "ai_rate_limit" =>
                i > 1 /\ ev[i - 1].event = "ai_error" /\ RateLimitedEvent(ev[i - 1])
        /\ \A i \in DOMAIN ev :
            ev[i].event = "retry_attempt" =>
                i > 1 /\ ev[i - 1].event \in {"ai_error", "ai_rate_limit"}
        /\ Count(ev, "ai_error") = Cardinality({i \in DOMAIN call.outcomes : call.outcomes[i] = "raise"})
        /\ Count(ev, "retry_attempt") = Count(ev, "ai_error")

\* The call suspended: its events are out, its counter is not yet incremented,
\* its wait is the backoff of the attempt, and the retry_attempt line reports it
Suspended ==
    call.at = "sleep" =>
        LET ev == call.emitted
            errors == {i \in DOMAIN ev : ev[i].event = "ai_error"}
            err == ev[CHOOSE i \in errors : \A j \in errors : j <= i]
        IN  /\ ev[Len(ev)] = [event |-> "retry_attempt", info |-> [attempt |-> call.attempt]]
            /\ err.info.attempt = call.attempt
            /\ call.attempt = call.invocations
            /\ \E rnd \in 0..RandSteps :
                call.wait = Backoff(call.attempt, RateLimitedEvent(err), config, rnd).sleep_time
            /\ (log # <<>> /\ ParseLine(log[Len(log)]).event = "retry_attempt"
                           /\ ParseLine(log[Len(log)]).info.attempt = call.attempt) =>
                    /\ ParseLine(log[Len(log)]).info.sleep_time = call.wait
                    /\ ParseLine(log[Len(log)]).info.is_rate_limit = RateLimitedEvent(err)
                    /\ ParseLine(log[Len(log)]).info.max_retries = config.max_retries
                    /\ ParseLine(log[Len(log)]).info.error = Text(err.info.error)

\* The wait ends before the counter is incremented and the next invocation starts
WaitThenIncrement ==
    /\ call.at = "sleep" =>
        /\ call'.at = "head"
        /\ call'.attempt = call.attempt + 1
        /\ call'.invocations = call.invocations
        /\ clock' = Min(clock + call.wait, MaxClock)
    /\ call'.attempt # call.attempt => call.at = "sleep"
    /\ call'.invocations # call.invocations =>
        /\ call.at = "head"
        /\ call'.invocations = call.invocations + 1
        /\ call'.attempt = call.attempt
        /\ clock' = clock

----------------------------------------------------------------------------
(* Properties of the log as a ledger *)

\* C22: the log only grows under metrics_log: every line appended earlier
\* stays where it was, unmodified, and lines are only added after it.  (A
\* step that leaves lines in the log is a step of metrics_log; the removal
\* by run_all leaves none.)
C22_AppendOnly ==
    [][log' # <<>> =>
        /\ Len(log') >= Len(log)
        /\ SubSeq(log', 1, Len(log)) = log]_vars

----------------------------------------------------------------------------
(* Properties of the two forms of the backoff calculator *)

\* The probe's call with the multiplier m passed
WithMultiplier(m, rnd) ==
    calculate_backoff(bo.attempt, bo.arg2, bo.arg3,
                      [k \in DOMAIN bo.kwargs \cup {"rate_limit_multiplier"} |->
                            IF k = "rate_limit_multiplier" THEN m ELSE bo.kwargs[k]],
                      rnd)

\* C23: calculate_backoff(attempt, base, max_backoff, rate_limit_multiplier
\* = m) without a jitter option adds no jitter, is the same for every draw
\* and equals min(base * 2^(attempt-1) * m, max_backoff); below the cap the
\* result for m = 6 is 6 times the result for m = 1.
C23_ExplicitMultiplier ==
    (Computed /\ bo.result.form = "float"
              /\ "rate_limit_multiplier" \in DOMAIN bo.kwargs
              /\ "retry_jitter_max" \notin DOMAIN bo.kwargs) =>
        /\ bo.result.jitter = 0
        /\ \A rnd \in 0..RandSteps :
            calculate_backoff(bo.attempt, bo.arg2, bo.arg3, bo.kwargs, rnd).sleep_time
                = bo.result.sleep_time
        /\ bo.result.sleep_time =
            Min(PyFloat(bo.arg2) * PyPow2(bo.attempt - 1) * bo.kwargs["rate_limit_multiplier"],
                PyFloat(bo.arg3))
        /\ \A rnd \in 0..RandSteps :
            WithMultiplier(6, rnd).sleep_time < PyFloat(bo.arg3) =>
                WithMultiplier(6, rnd).sleep_time = 6 * WithMultiplier(1, bo.rnd).sleep_time

C23_Witness ==
    /\ Computed
    /\ bo.result.form = "float"
    /\ bo.kwargs = [rate_limit_multiplier |-> 6]
    /\ bo.rnd = 1
    /\ bo.attempt = 2
    /\ bo.result.sleep_time = 12 * PyFloat(bo.arg2)
    /\ bo.result.sleep_time < PyFloat(bo.arg3)

\* C24: calculate_backoff(attempt, is_rate_limit, config) returns, for
\* every attempt >= 1 and positive base, a triple (backoff, jitter, total)
\* with 0 < backoff <= retry_max_backoff, 0 <= jitter <= retry_jitter_max
\* and total = backoff + jitter, so 0 < total <= retry_max_backoff +
\* retry_jitter_max.
C24_TripleBounds ==
    (bo.phase = "done" /\ bo.arg2.type = "bool" /\ bo.arg3.type = "dict") =>
        /\ bo.result.raises = "none"
        /\ bo.result.form = "triple"
        /\ 0 < bo.result.backoff /\ bo.result.backoff <= ProbeMaxBackoff
        /\ 0 <= bo.result.jitter /\ bo.result.jitter <= ProbeJitterMax
        /\ bo.result.sleep_time = bo.result.backoff + bo.result.jitter
        /\ 0 < bo.result.sleep_time
        /\ bo.result.sleep_time <= ProbeMaxBackoff + ProbeJitterMax

----------------------------------------------------------------------------
(* PostMerger.merge_alternate *)

MaxLines == 2          \* lines in each of the two lists

\* str.rstrip("\n"): the text without its trailing newline characters
RStripNewline(s) ==
    LET keep == {i \in 1..Len(s) : s[i] # "\n"}
    IN  IF keep = {} THEN <<>>
        ELSE SubSeq(s, 1, CHOOSE i \in keep : \A j \in keep : j <= i)

\* Mutant: the two lists are joined, lines1 first
merge_alternate_concatenated(lines1, lines2) ==
    [i \in 1..(Len(lines1) + Len(lines2)) |->
        IF i <= Len(lines1) THEN RStripNewline(lines1[i])
        ELSE RStripNewline(lines2[i - Len(lines1)])]

\* The loop of merge_alternate from index i on, merged being the list so far
RECURSIVE merge_from(_, _, _, _)
merge_from(lines1, lines2, i, merged) ==
    LET max_len == IF Len(lines1) >= Len(lines2) THEN Len(lines1) ELSE Len(lines2)
        m1 == IF i < Len(lines1) THEN Append(merged, RStripNewline(lines1[i + 1])) ELSE merged
        m2 == IF i < Len(lines2) THEN Append(m1, RStripNewline(lines2[i + 1])) ELSE m1
    IN  IF i >= max_len THEN merged ELSE merge_from(lines1, lines2, i + 1, m2)

merge_alternate(lines1, lines2) == merge_from(lines1, lines2, 0, <<>>)

\* Lines as readlines() gives them, and lines without a terminator
Lines == {<<"a", "\n">>, <<"b", "\n">>, <<"\n">>, <<"a">>}

LineLists == UNION {[1..n -> Lines] : n \in 0..MaxLines}

InitMerge ==
    /\ CoreIdle
    /\ gen = IdleProbe
    /\ pipe = IdleProbe
    /\ calls = IdleProbe
    /\ mrg \in {[phase |-> "call", lines1 |-> l1, lines2 |-> l2, merged |-> <<>>] :
                    l1 \in LineLists, l2 \in LineLists}

MergeAlternate ==
    /\ mrg.phase = "call"
    /\ mrg' = [mrg EXCEPT !.phase = "done",
                          !.merged = merge_alternate(mrg.lines1, mrg.lines2)]
    /\ UNCHANGED <<config, call, log, clock, bo, cls, sink, gen, pipe, calls>>

NextMerge == MergeAlternate

SpecMerge == InitMerge /\ [][NextMerge]_vars

\* The smaller of the two lengths
Shorter == Min(Len(mrg.lines1), Len(mrg.lines2))

\* The line at position i (from 0) of the merge of la and lb as the claim
\* lays it out: alternating below twice the shorter length, then the rest
\* of the longer list
Laid(la, lb, i) ==
    LET k == Min(Len(la), Len(lb))
        longer == IF Len(la) >= Len(lb) THEN la ELSE lb
    IN  IF i < 2 * k
        THEN (IF i % 2 = 0 THEN la[(i \div 2) + 1] ELSE lb[(i \div 2) + 1])
        ELSE longer[i - k + 1]

\* C30 as stated: the merged list has the lines of both inputs themselves,
\* alternating from lines1, then the rest of the longer input.
C30_MergeKeepsLines ==
    mrg.phase = "done" =>
        /\ Len(mrg.merged) = Len(mrg.lines1) + Len(mrg.lines2)
        /\ \A i \in 0..(Len(mrg.merged) - 1) :
            mrg.merged[i + 1] = Laid(mrg.lines1, mrg.lines2, i)

\* C30: merge_alternate(lines1, lines2) returns a list of length
\* len(lines1) + len(lines2) that holds every line of both inputs once,
\* each without its trailing newline characters, in the order of its input:
\* position 2i holds lines1[i] and position 2i+1 holds lines2[i] below the
\* shorter length, and the rest of the longer input follows.
C30_MergeKeepsStrippedLines ==
    mrg.phase = "done" =>
        /\ Len(mrg.merged) = Len(mrg.lines1) + Len(mrg.lines2)
        /\ \A i \in 0..(Len(mrg.merged) - 1) :
            mrg.merged[i + 1] = RStripNewline(Laid(mrg.lines1, mrg.lines2, i))

C30_Witness ==
    /\ mrg.phase = "done"
    /\ Len(mrg.lines1) = 2
    /\ Len(mrg.lines2) = 1
    /\ mrg.lines1[2] = <<"b", "\n">>
    /\ mrg.merged = <<<<"a">>, <<>>, <<"b">>>>

----------------------------------------------------------------------------
(* run_all.main: the pipeline of scripts *)

\* The steps of main in the order of its statements; the first three are
\* scripts run by run_script, the last is PostMerger().merge() in process
Steps ==
    <<"make_input_csv.py", "normal_post_generator.py",
      "affiliate_post_generator.py", "merge">>
Scripts == 1..3

\* Return codes of a script: success, an error, a usage error, killed by a
\* signal
ReturnCodes == {0, 1, 2, 0 - 9}

\* The pipeline as main starts: secrets says whether secrets.yaml exists
NewPipeline(secrets) ==
    [pc |-> "check_secrets", secrets |-> secrets, step |-> 1, started |-> <<>>,
     returned |-> <<>>, status |-> NoNumber, summary |-> NoNumber]

\* exit(1), or an exception nobody catches: the interpreter ends with status 1
Exit1(p) == [p EXCEPT !.pc = "exited", !.status = 1]

\* Mutant: a failed script is logged and the pipeline goes on
run_script_goes_on(p, returncode) ==
    [p EXCEPT !.returned = Append(@, returncode),
              !.step = @ + 1,
              !.pc = IF p.step + 1 \in Scripts THEN "script" ELSE "merge"]

\* run_script after subprocess.run returned: a nonzero code ends the
\* pipeline with exit(1), a zero code lets main go to its next statement
run_script(p, returncode) ==
    IF returncode # 0
    THEN Exit1([p EXCEPT !.returned = Append(@, returncode)])
    ELSE [p EXCEPT !.returned = Append(@, returncode),
                   !.step = @ + 1,
                   !.pc = IF p.step + 1 \in Scripts THEN "script" ELSE "merge"]

\* Lines a metrics log of an earlier run may hold
OldLogs == {<<>>, metrics_log(<<>>, "ai_success", [attempts |-> 1], 0, TRUE).log}

InitPipeline ==
    /\ config \in {c \in Configs : c.max_retries = 1 /\ c.base = 2}
    /\ call = NewCall
    /\ log \in OldLogs
    /\ clock = 0
    /\ bo = IdleProbe
    /\ cls = IdleProbe
    /\ sink = IdleSink
    /\ gen = IdleProbe
    /\ mrg = IdleProbe
    /\ calls = IdleProbe
    /\ pipe \in {NewPipeline(secrets) : secrets \in BOOLEAN}

\* check_secrets: without secrets.yaml the run ends with exit(1)
CheckSecrets ==
    /\ pipe.pc = "check_secrets"
    /\ pipe' = IF pipe.secrets THEN [pipe EXCEPT !.pc = "clear_metrics"] ELSE Exit1(pipe)
    /\ UNCHANGED <<config, call, log, clock, bo, cls, sink, gen, mrg, calls>>

\* The metrics log of the previous run is removed; removed says whether
\* os.remove succeeded, a failure being ignored
ClearMetrics ==
    /\ pipe.pc = "clear_metrics"
    /\ \E removed \in BOOLEAN : log' = IF removed THEN <<>> ELSE log
    /\ pipe' = [pipe EXCEPT !.pc = "script"]
    /\ UNCHANGED <<config, call, clock, bo, cls, sink, gen, mrg, calls>>

\* run_script starts the script of the step as a child process
StartScript ==
    /\ pipe.pc = "script"
    /\ pipe' = [pipe EXCEPT !.pc = "running", !.started = Append(@, Steps[pipe.step])]
    /\ UNCHANGED <<config, call, log, clock, bo, cls, sink, gen, mrg, calls>>

\* A running generator script appends a metrics event
ScriptEmits ==
    /\ pipe.pc = "running"
    /\ pipe.step \in {2, 3}
    /\ Len(log) < MaxEvents
    /\ \E e \in SinkEvents : log' = metrics_log(log, e, NoneInfo, clock, TRUE).log
    /\ UNCHANGED <<config, call, clock, bo, cls, sink, gen, pipe, mrg, calls>>

\* The child process ends with a return code
ScriptReturns ==
    /\ pipe.pc = "running"
    /\ \E returncode \in ReturnCodes : pipe' = run_script(pipe, returncode)
    /\ UNCHANGED <<config, call, log, clock, bo, cls, sink, gen, mrg, calls>>

\* subprocess.run raises, the interpreter not being found: nobody catches it
ScriptNotStarted ==
    /\ pipe.pc = "running"
    /\ pipe' = Exit1(pipe)
    /\ UNCHANGED <<config, call, log, clock, bo, cls, sink, gen, mrg, calls>>

\* PostMerger().merge(): it returns, or raises and nobody catches it
MergeStep ==
    /\ pipe.pc = "merge"
    /\ \E ok \in BOOLEAN :
        LET p == [pipe EXCEPT !.started = Append(@, Steps[pipe.step])]
        IN  pipe' = IF ok THEN [p EXCEPT !.pc = "summary"] ELSE Exit1(p)
    /\ UNCHANGED <<config, call, log, clock, bo, cls, sink, gen, mrg, calls>>

\* The events of the metrics log are counted and main returns
Summarise ==
    /\ pipe.pc = "summary"
    /\ pipe' = [pipe EXCEPT !.pc = "finished", !.status = 0,
                            !.summary = Cardinality({i \in DOMAIN log : IsJsonLine(log[i])})]
    /\ UNCHANGED <<config, call, log, clock, bo, cls, sink, gen, mrg, calls>>

NextPipeline ==
    \/ CheckSecrets
    \/ ClearMetrics
    \/ StartScript
    \/ ScriptEmits
    \/ ScriptReturns
    \/ ScriptNotStarted
    \/ MergeStep
    \/ Summarise

SpecPipeline == InitPipeline /\ [][NextPipeline]_vars

\* The steps started are the first steps of main, in its order
StartedInOrder ==
    /\ Len(pipe.started) <= Len(Steps)
    /\ \A i \in DOMAIN pipe.started : pipe.started[i] = Steps[i]

\* Every step before the last one started has returned 0
EarlierReturnedZero ==
    \A i \in DOMAIN pipe.started :
        \A j \in 1..(i - 1) : j \in DOMAIN pipe.returned /\ pipe.returned[j] = 0

\* A nonzero return code has ended the pipeline with status 1, the failed
\* script being the last step that was started
NonzeroEnds ==
    \A j \in DOMAIN pipe.returned :
        pipe.returned[j] # 0 =>
            /\ pipe.pc = "exited"
            /\ pipe.status = 1
            /\ Len(pipe.started) = j

\* C29: run_all runs make_input_csv, normal_post_generator,
\* affiliate_post_generator and the merge in this order; a step starts only
\* after every earlier step returned 0, and a nonzero return code ends the
\* pipeline with status 1 before any later step, the merge included.
C29_PipelineInOrder ==
    /\ [](StartedInOrder /\ EarlierReturnedZero /\ NonzeroEnds)
    /\ [][(\E j \in DOMAIN pipe.returned : pipe.returned[j] # 0) => pipe' = pipe]_vars

C29_Witness ==
    /\ pipe.pc = "exited"
    /\ pipe.status = 1
    /\ pipe.returned = <<0, 2>>
    /\ pipe.started = <<"make_input_csv.py", "normal_post_generator.py">>
    /\ Len(log) = 2

----------------------------------------------------------------------------
(* The generators: NormalPostGenerator.generate_posts_for_theme and          *)
(* AffiliatePostGenerator.generate, the worker pool and the retry passes     *)

MaxPosts == 6          \* posts_per_theme, or entries, in the parallel phase alone
MaxRetried == 3        \* posts_per_theme, or entries, when retry passes follow
MaxPasses == 2         \* retry_passes of the generation policy

\* ThreadPoolExecutor(max_workers=5)
max_workers == 5

\* "[AIエラー]"
ErrorMarker == <<"[", "A", "I", "エ", "ラ", "ー", "]">>

\* The error texts of the generators, their messages cut to one character
MarkerPlaceholder == ErrorMarker \o <<" ", "プ">>
MarkerNoJapanese == ErrorMarker \o <<" ", "ニ">>
MarkerFailed == ErrorMarker \o <<" ", "セ">>

\* s.startswith(prefix)
StartsWith(s, prefix) ==
    Len(s) >= Len(prefix) /\ SubSeq(s, 1, Len(prefix)) = prefix

\* text.replace("\n", "\\n"): a newline becomes a backslash and an n
RECURSIVE EscapeLf(_)
EscapeLf(t) ==
    IF t = <<>> THEN <<>>
    ELSE (IF Head(t) = "\n" THEN <<"\\", "n">> ELSE <<Head(t)>>) \o EscapeLf(Tail(t))

\* text.replace("\r\n", "\\n")
RECURSIVE EscapeCrLf(_)
EscapeCrLf(t) ==
    IF t = <<>> THEN <<>>
    ELSE IF Len(t) >= 2 /\ t[1] = "\r" /\ t[2] = "\n"
         THEN <<"\\", "n">> \o EscapeCrLf(SubSeq(t, 3, Len(t)))
         ELSE <<Head(t)>> \o EscapeCrLf(Tail(t))

\* while text.startswith("\\n"): text = text[2:]
RECURSIVE TrimLeadingEscapes(_)
TrimLeadingEscapes(t) ==
    IF StartsWith(t, <<"\\", "n">>) THEN TrimLeadingEscapes(SubSeq(t, 3, Len(t))) ELSE t

\* while text.endswith("\\n"): text = text[:-2]
RECURSIVE TrimTrailingEscapes(_)
TrimTrailingEscapes(t) ==
    IF Len(t) >= 2 /\ t[Len(t) - 1] = "\\" /\ t[Len(t)] = "n"
    THEN TrimTrailingEscapes(SubSeq(t, 1, Len(t) - 2))
    ELSE t

\* Steps 1 and 3 of the clean-up; the texts of GwrResults hold none of the
\* noise the regular expressions of step 2 remove
CleanText(text) ==
    Strip(TrimTrailingEscapes(TrimLeadingEscapes(EscapeLf(EscapeCrLf(text)))))

\* re.search(placeholder_pattern, text): a bracketed placeholder
HasPlaceholder(t) ==
    \E i \in DOMAIN t : t[i] = "[" /\ \E j \in DOMAIN t : j > i /\ t[j] = "]"

\* re.search(r'[ぁ-んァ-ン一-龥]', text)
HasJapanese(t) == \E i \in DOMAIN t : t[i] \in {"ヨ", "イ"}

\* generate_single_post on the text generate_with_retry returned
generate_single_post(text) ==
    LET t == CleanText(text)
    IN  IF HasPlaceholder(t) THEN MarkerPlaceholder
        ELSE IF ~HasJapanese(t) THEN MarkerNoJapanese
        ELSE t

\* generate_post_text on the text generate_with_retry returned; u is the
\* short URL
generate_post_text(text) ==
    LET t == CleanText(text)
    IN  IF HasPlaceholder(t) THEN MarkerPlaceholder
        ELSE IF ~HasJapanese(t) THEN MarkerNoJapanese
        ELSE t \o <<"\\", "n", "\\", "n", "u">>

\* Mutant: only a missing or blank post counts as failed
_is_failed_blank_only(p) ==
    IF p.none THEN TRUE
    ELSE Strip(p.chars) = <<>>

\* _is_failed: None, blank, or an error text
_is_failed(p) ==
    IF p.none THEN TRUE
    ELSE LET s == Strip(p.chars)
         IN  s = <<>> \/ StartsWith(s, ErrorMarker)

\* Texts generate_with_retry returns: "" after exhaustion, a Japanese text
\* of two lines
GwrResults == {<<>>, <<"ヨ", "\n", "イ">>}

Kinds == {"normal", "affiliate"}

\* The post a worker of the pool returns for a text; raised says that
\* generate_post_text raised, which only process_entry catches
PoolResult(kind, text, raised) ==
    IF kind = "normal" THEN Text(generate_single_post(text))
    ELSE IF raised THEN Text(MarkerFailed)
    ELSE Text(generate_post_text(text))

\* The text a retry pass got for an entry
RetryResult(kind, text) ==
    IF kind = "normal" THEN Text(IF text # <<>> THEN EscapeLf(text) ELSE text)
    ELSE Text(generate_post_text(text))

\* [i for i, p in enumerate(posts) if _is_failed(p)], from index i on
RECURSIVE FailedFrom(_, _)
FailedFrom(posts, i) ==
    IF i > Len(posts) THEN <<>>
    ELSE (IF _is_failed(posts[i]) THEN <<i>> ELSE <<>>) \o FailedFrom(posts, i + 1)

\* failed_idxs.remove(idx)
Remove(seq, idx) == SelectSeq(seq, LAMBDA x : x # idx)

\* A generator as the parallel phase starts: n requests are queued
NewGen(kind, n) ==
    [kind |-> kind, phase |-> "pool", n |-> n,
     posts |-> [i \in 1..n |-> NoneText],
     next |-> 1, running |-> {}, done |-> {},
     after_pool |-> <<>>, failed_idxs |-> <<>>, todo |-> <<>>,
     retry_passes |-> 0, rp |-> 0,
     regen |-> [i \in 1..n |-> 0], total |-> [i \in 1..n |-> 0]]

\* Mutant: a request starts though every worker is busy
CanStartAlways(g) == g.next <= g.n

\* A queued request starts when a worker of the pool is free
CanStart(g) == g.next <= g.n /\ Cardinality(g.running) < max_workers

\* Mutant: the text of a retry is stored unchecked
retry_entry_unchecked(g, idx, new_post) ==
    [g EXCEPT !.posts[idx] = new_post,
              !.failed_idxs = IF _is_failed(new_post) THEN @ ELSE Remove(@, idx)]

\* The body of the retry loop for entry idx after the text was generated
retry_entry(g, idx, new_post) ==
    IF ~_is_failed(new_post)
    THEN [g EXCEPT !.posts[idx] = new_post, !.failed_idxs = Remove(@, idx)]
    ELSE g

\* The loops of the retry passes after an entry: the next entry of the pass,
\* the next pass over the entries still failed, or the end
NextEntry(g) ==
    LET rest == Tail(g.todo)
    IN  IF rest # <<>> THEN [g EXCEPT !.todo = rest]
        ELSE IF g.failed_idxs = <<>> \/ g.rp = g.retry_passes
             THEN [g EXCEPT !.todo = <<>>, !.phase = "returned"]
             ELSE [g EXCEPT !.todo = g.failed_idxs, !.rp = @ + 1,
                            !.regen = [i \in 1..g.n |-> 0]]

InitGen ==
    /\ CoreIdle
    /\ pipe = IdleProbe
    /\ mrg = IdleProbe
    /\ calls = IdleProbe
    /\ gen \in {NewGen(kind, n) : kind \in Kinds, n \in 1..MaxRetried}

\* A worker takes the next request of the queue and calls generate_with_retry
Take ==
    /\ gen.phase = "pool"
    /\ CanStart(gen)
    /\ gen' = [gen EXCEPT !.running = @ \cup {gen.next}, !.next = @ + 1]
    /\ UNCHANGED <<config, call, log, clock, bo, cls, sink, pipe, mrg, calls>>

\* The call of request i returns and the worker returns the post
Finish(i) ==
    /\ gen.phase = "pool"
    /\ i \in gen.running
    /\ \E text \in GwrResults, raised \in BOOLEAN :
        /\ raised => gen.kind = "affiliate"
        /\ gen' = [gen EXCEPT !.posts[i] = PoolResult(gen.kind, text, raised),
                              !.running = @ \ {i},
                              !.done = @ \cup {i}]
    /\ UNCHANGED <<config, call, log, clock, bo, cls, sink, pipe, mrg, calls>>

\* The pool is shut down with every result in; the failed posts are listed
\* and the first retry pass is entered
PoolDone ==
    /\ gen.phase = "pool"
    /\ gen.done = 1..gen.n
    /\ \E retry_passes \in 0..MaxPasses :
        LET failed_idxs == FailedFrom(gen.posts, 1)
            g == [gen EXCEPT !.after_pool = gen.posts,
                             !.failed_idxs = failed_idxs,
                             !.retry_passes = retry_passes]
        IN  gen' = IF failed_idxs = <<>> \/ retry_passes = 0
                   THEN [g EXCEPT !.phase = "returned"]
                   ELSE [g EXCEPT !.phase = "retry", !.rp = 1, !.todo = failed_idxs]
    /\ UNCHANGED <<config, call, log, clock, bo, cls, sink, pipe, mrg, calls>>

\* One entry of a retry pass: the text is generated again and stored when
\* it is not failed; raised says that generate_post_text raised, which the
\* affiliate generator catches
Regenerate ==
    /\ gen.phase = "retry"
    /\ gen.todo # <<>>
    /\ \E text \in GwrResults, raised \in BOOLEAN :
        LET idx == Head(gen.todo)
            g == [gen EXCEPT !.regen[idx] = @ + 1, !.total[idx] = @ + 1]
        IN  /\ raised => gen.kind = "affiliate"
            /\ gen' = NextEntry(IF raised THEN g
                                ELSE retry_entry(g, idx, RetryResult(gen.kind, text)))
    /\ UNCHANGED <<config, call, log, clock, bo, cls, sink, pipe, mrg, calls>>

NextGen ==
    \/ Take
    \/ \E i \in 1..MaxPosts : Finish(i)
    \/ PoolDone
    \/ Regenerate

SpecGen == InitGen /\ [][NextGen]_vars

\* The parallel phase alone, up to the shutdown of the pool
NextPool ==
    \/ Take
    \/ \E i \in 1..MaxPosts : Finish(i)
    \/ PoolDone

InitPool ==
    /\ CoreIdle
    /\ pipe = IdleProbe
    /\ mrg = IdleProbe
    /\ calls = IdleProbe
    /\ gen \in {NewGen(kind, n) : kind \in Kinds, n \in 1..MaxPosts}

SpecPool == InitPool /\ [][NextPool]_vars

\* A free worker takes a queued request, and a call in progress returns
FairSpecPool ==
    /\ SpecPool
    /\ WF_vars(Take)
    /\ WF_vars(\E i \in 1..MaxPosts : Finish(i))

----------------------------------------------------------------------------
(* Properties of the generators *)

\* The entries of a sequence
Range(seq) == {seq[i] : i \in DOMAIN seq}

\* The slots of a list of posts that hold a failed post
FailedSlots(posts) == {i \in DOMAIN posts : _is_failed(posts[i])}

\* C26: in the parallel phase at most 5 generate_with_retry calls are in
\* progress at a time, however many posts are requested, and every
\* requested post is eventually processed by the pool.
C26_PoolBound ==
    /\ [](Cardinality(gen.running) <= 5)
    /\ \A i \in 1..MaxPosts : (i <= gen.n) ~> (i \in gen.done)

C26_Witness ==
    /\ gen.phase = "pool"
    /\ gen.n = 6
    /\ Cardinality(gen.running) = 5
    /\ gen.done = {}
    /\ gen.next = 6

\* Failed as the claim words it: None, empty after stripping, or starting
\* with the error marker
MarkedFailed(p) ==
    \/ p.none
    \/ Strip(p.chars) = <<>>
    \/ StartsWith(p.chars, ErrorMarker)

\* The step that ends the parallel phase schedules exactly the failed posts
SchedulesFailed ==
    (gen.phase = "pool" /\ gen'.phase # "pool") =>
        \A i \in 1..gen.n : (i \in Range(gen'.failed_idxs)) <=> MarkedFailed(gen'.posts[i])

\* A post is generated again only while it is failed
RetriesOnlyFailed ==
    \A i \in 1..gen.n :
        gen'.total[i] # gen.total[i] => MarkedFailed(gen.posts[i])

\* C27: after the parallel phase a post is scheduled for the retry passes
\* if and only if it is None, empty after stripping or starts with
\* "[AIエラー]"; a scheduled post is generated again at most once per pass
\* and in at most retry_passes passes, and no more once it is not failed.
C27_RetryScheduling ==
    /\ [][SchedulesFailed /\ RetriesOnlyFailed]_vars
    /\ [](gen.phase \in {"retry", "returned"} =>
            /\ gen.rp <= gen.retry_passes
            /\ \A i \in 1..gen.n :
                /\ gen.regen[i] <= 1
                /\ gen.total[i] <= gen.retry_passes
                /\ gen.total[i] > 0 => MarkedFailed(gen.after_pool[i]))

C27_Witness ==
    /\ gen.phase = "returned"
    /\ gen.retry_passes = 2
    /\ \E i, j, k \in 1..gen.n :
        /\ MarkedFailed(gen.after_pool[i]) /\ gen.total[i] = 1 /\ ~MarkedFailed(gen.posts[i])
        /\ MarkedFailed(gen.after_pool[j]) /\ gen.total[j] = 2 /\ MarkedFailed(gen.posts[j])
        /\ ~MarkedFailed(gen.after_pool[k]) /\ gen.total[k] = 0

\* A step of the retry passes leaves the non-failed slots alone and stores
\* only non-failed texts
RetryStepKeeps ==
    gen.phase = "retry" =>
        /\ Len(gen'.posts) = Len(gen.posts)
        /\ FailedSlots(gen'.posts) \subseteq FailedSlots(gen.posts)
        /\ \A i \in DOMAIN gen.posts :
            /\ ~_is_failed(gen.posts[i]) => gen'.posts[i] = gen.posts[i]
            /\ gen'.posts[i] # gen.posts[i] => ~_is_failed(gen'.posts[i])

\* C28: during the retry passes a non-failed slot is never overwritten and
\* a failed slot is overwritten only by a non-failed text: every post that
\* was non-failed keeps its value and position, the length of the list is
\* unchanged and the set of failed slots never grows.
C28_RetryFrame ==
    /\ [][RetryStepKeeps]_vars
    /\ [](gen.phase \in {"retry", "returned"} =>
            /\ Len(gen.posts) = Len(gen.after_pool)
            /\ FailedSlots(gen.posts) \subseteq FailedSlots(gen.after_pool)
            /\ \A i \in DOMAIN gen.posts :
                ~_is_failed(gen.after_pool[i]) => gen.posts[i] = gen.after_pool[i])

C28_Witness ==
    /\ gen.phase = "returned"
    /\ gen.kind = "normal"
    /\ gen.n = 3
    /\ FailedSlots(gen.after_pool) = {1, 3}
    /\ FailedSlots(gen.posts) = {3}
    /\ gen.posts[1] = Text(<<"ヨ", "\\", "n", "イ">>)
    /\ gen.posts[2] = gen.after_pool[2]
    /\ gen.total[3] = 2

----------------------------------------------------------------------------
(* generate_with_retry calls of several workers at the same time *)

Callers == 2           \* workers that are inside generate_with_retry

\* What the remote call answers a worker: a text, a response without text,
\* a rate-limit error, another error
CallResponses == {Response(TRUE, <<"o", "k">>, FALSE, <<>>), NoResponse}
CallErrors == {Err429, ErrPersistent}

\* Mutant: the attempt counter is shared by the calls
WakeUpCallsShared(cs, k) ==
    [j \in DOMAIN cs |->
        IF j = k THEN AfterSleep(cs[j]) ELSE [cs[j] EXCEPT !.attempt = @ + 1]]

\* The sleep of call k is over: only its own counter is incremented
WakeUpCalls(cs, k) == [cs EXCEPT ![k] = AfterSleep(cs[k])]

InitCalls ==
    /\ config \in {c \in Configs : c.base = 1}
    /\ call = NewCall
    /\ log = <<>>
    /\ clock = 0
    /\ bo = IdleProbe
    /\ cls = IdleProbe
    /\ sink = IdleSink
    /\ gen = IdleProbe
    /\ pipe = IdleProbe
    /\ mrg = IdleProbe
    /\ calls = [k \in 1..Callers |-> NewCall]

InvokeOf(k) ==
    /\ calls[k].at = "head"
    /\ AttemptsLeft(calls[k], config)
    /\ calls' = [calls EXCEPT ![k] = StartAttempt(calls[k])]
    /\ UNCHANGED <<config, call, log, clock, bo, cls, sink, gen, pipe, mrg>>

RemoteReturnsOf(k) ==
    /\ calls[k].at = "remote"
    /\ \E resp \in CallResponses :
        LET s == OnResponse([call |-> calls[k], log |-> log], resp, clock, TRUE)
        IN  calls' = [calls EXCEPT ![k] = s.call] /\ log' = s.log
    /\ UNCHANGED <<config, call, clock, bo, cls, sink, gen, pipe, mrg>>

RemoteRaisesOf(k) ==
    /\ calls[k].at = "remote"
    /\ \E err \in CallErrors, rnd \in 0..RandSteps :
        LET s == OnError([call |-> calls[k], log |-> log], config, err, rnd, clock, TRUE)
        IN  calls' = [calls EXCEPT ![k] = s.call] /\ log' = s.log
    /\ UNCHANGED <<config, call, clock, bo, cls, sink, gen, pipe, mrg>>

WakeUpOf(k) ==
    /\ calls[k].at = "sleep"
    /\ calls' = WakeUpCalls(calls, k)
    /\ UNCHANGED <<config, call, log, clock, bo, cls, sink, gen, pipe, mrg>>

ExhaustOf(k) ==
    /\ calls[k].at = "head"
    /\ ~AttemptsLeft(calls[k], config)
    /\ LET s == OnExhausted([call |-> calls[k], log |-> log], clock, TRUE)
       IN  calls' = [calls EXCEPT ![k] = s.call] /\ log' = s.log
    /\ UNCHANGED <<config, call, clock, bo, cls, sink, gen, pipe, mrg>>

NextCalls ==
    \/ \E k \in 1..Callers : InvokeOf(k)
    \/ \E k \in 1..Callers : RemoteReturnsOf(k)
    \/ \E k \in 1..Callers : RemoteRaisesOf(k)
    \/ \E k \in 1..Callers : WakeUpOf(k)
    \/ \E k \in 1..Callers : ExhaustOf(k)

SpecCalls == InitCalls /\ [][NextCalls]_vars

\* The states one call can move to by itself from c, whatever the others do
OwnSteps(c) ==
    (IF c.at = "head" /\ AttemptsLeft(c, config) THEN {StartAttempt(c)} ELSE {})
    \cup (IF c.at = "head" /\ ~AttemptsLeft(c, config)
          THEN {OnExhausted([call |-> c, log |-> <<>>], 0, TRUE).call} ELSE {})
    \cup (IF c.at = "sleep" THEN {AfterSleep(c)} ELSE {})
    \cup (IF c.at = "remote"
          THEN {OnResponse([call |-> c, log |-> <<>>], resp, 0, TRUE).call : resp \in CallResponses}
               \cup {OnError([call |-> c, log |-> <<>>], config, err, rnd, 0, TRUE).call :
                        err \in CallErrors, rnd \in 0..RandSteps}
          ELSE {})

\* A step is the step of one call, made from its own state alone
OneCallSteps ==
    \E k \in 1..Callers :
        /\ calls'[k] \in OwnSteps(calls[k])
        /\ \A j \in 1..Callers : j # k => calls'[j] = calls[j]

\* Call k can go on, whatever the other calls are doing
CanGoOn(k) ==
    /\ calls[k].at = "remote" => ENABLED (RemoteReturnsOf(k) \/ RemoteRaisesOf(k))
    /\ calls[k].at = "sleep" => ENABLED WakeUpOf(k)
    /\ calls[k].at = "head" => ENABLED (InvokeOf(k) \/ ExhaustOf(k))

\* The counter and the outcome of call k follow from its own results
OwnOutcome(k) ==
    LET c == calls[k]
        raises == Cardinality({i \in DOMAIN c.outcomes : c.outcomes[i] = "raise"})
    IN  /\ c.invocations <= config.max_retries
        /\ c.invocations = Len(c.outcomes) + (IF c.at = "remote" THEN 1 ELSE 0)
        /\ c.attempt = raises + (IF c.at = "sleep" \/ c.state = "SUCCEEDED" THEN 0 ELSE 1)
                              + (IF c.state = "SUCCEEDED" THEN 1 ELSE 0)
        /\ c.at = "done" =>
            \/ c.state = "SUCCEEDED" /\ c.outcomes[Len(c.outcomes)] = "return"
            \/ c.state = "EXHAUSTED" /\ raises = config.max_retries
                                     /\ Len(c.outcomes) = config.max_retries

\* C25: calls that run at the same time are independent: the counter, the
\* waits and the outcome of a call follow from the results of its own
\* remote invocations, a call that sleeps stops no other call, and under
\* every interleaving a call makes at most max_retries attempts and ends
\* SUCCEEDED or EXHAUSTED.
C25_IndependentCalls ==
    /\ [](\A k \in 1..Callers : OwnOutcome(k) /\ CanGoOn(k))
    /\ [][OneCallSteps]_vars

C25_Witness ==
    /\ calls[1].at = "sleep"
    /\ calls[1].attempt = 1
    /\ calls[2].at = "done"
    /\ calls[2].state = "EXHAUSTED"
    /\ calls[2].invocations = 2
    /\ config.max_retries = 2

====
